---- MODULE Spec2Model ----
(***************************************************************************)
(* A model of passh (src/passh/__init__.py): PAsshProtocol, the per-host   *)
(* subprocess protocol that buffers and prefixes output lines, and PAssh,  *)
(* which runs one session task per host on an asyncio event loop behind a  *)
(* semaphore and cancels every task when a session raises.                 *)
(*                                                                         *)
(* One action is one callback of the event loop: one step of a task from  *)
(* a suspension point to the next, or one protocol callback.               *)
(***************************************************************************)
EXTENDS Integers, Sequences, FiniteSets, TLC

\* ------------------------------------------------------------------ bounds
\* Number of hosts a request may name.
NHosts == 2
\* Largest nprocs tried.
MaxProcs == 2
\* Bytes the child may write in a run with a single host.
MaxBytes == 2

\* ------------------------------------------------------------------ bytes
LF == 10
CR == 13
\* The bytes a child may write: a letter, a newline, a carriage return.
Bytes == {97, LF, CR}

AllHosts == 1..NHosts

\* hostname.encode('utf-8'): host k is named by the digit k.
HostName(h) == <<48 + h>>

\* self._prefix = b'[' + hostname + b'] '
Prefix(h) == <<91>> \o HostName(h) \o <<93, 32>>

\* str(hostname): the host as an argument of the command line.
HostArg(h) == ToString(h)

\* _SSH and _INSECURE_OPTS
_SSH == <<"ssh", "-T", "-o", "LogLevel=ERROR", "-o", "ConnectTimeout=6">>
_INSECURE_OPTS == <<"-o", "StrictHostKeyChecking=no",
                    "-o", "UserKnownHostsFile=/dev/null">>

\* The command arguments a request may carry.
ArgLists == {<<"date">>, <<"ls", "-l">>, <<>>}

\* Nonempty byte strings of length at most n.
RECURSIVE BytesUpTo(_)
BytesUpTo(n) ==
  IF n <= 0 THEN {}
  ELSE LET shorter == BytesUpTo(n - 1)
       IN  {<<b>> : b \in Bytes} \cup shorter
             \cup {Append(s, b) : s \in shorter, b \in Bytes}

SetMin(S) == CHOOSE x \in S : \A y \in S : x <= y
SetMax(S) == CHOOSE x \in S : \A y \in S : x >= y

\* buf.rfind(b'\n'): the 0-based index of the last newline, or -1.
RFind(buf) ==
  LET idx == {i \in 1..Len(buf) : buf[i] = LF}
  IN  IF idx = {} THEN -1 ELSE SetMax(idx) - 1

\* The 1-based index at which the first line of s ends under
\* bytes.splitlines: at the first \n or \r, a \r\n pair counting as one
\* terminator; Len(s) when s holds no terminator.
FirstLineEnd(s) ==
  LET idx == {i \in 1..Len(s) : s[i] \in {LF, CR}}
  IN  IF idx = {} THEN Len(s)
      ELSE LET i == SetMin(idx)
           IN  IF s[i] = CR /\ i < Len(s) /\ s[i + 1] = LF THEN i + 1 ELSE i

\* bytes.splitlines(True): the lines of s, terminators kept.
RECURSIVE splitlines(_)
splitlines(s) ==
  IF s = <<>> THEN <<>>
  ELSE LET e == FirstLineEnd(s)
       IN  <<SubSeq(s, 1, e)>> \o splitlines(SubSeq(s, e + 1, Len(s)))

\* flush_line: the writes made to the sink for buffer buf.
FlushLineWrites(h, buf) ==
  LET pos == RFind(buf)
  IN  IF pos = -1 THEN <<>>
      ELSE LET lines == splitlines(SubSeq(buf, 1, pos + 1))
           IN  [i \in 1..Len(lines) |-> Prefix(h) \o lines[i]]

\* flush_line: the buffer after `del buf[0:pos+1]`.
FlushLineRestMutKeep(buf) == buf
FlushLineRest(buf) ==
  LET pos == RFind(buf)
  IN  IF pos = -1 THEN buf ELSE SubSeq(buf, pos + 2, Len(buf))

\* _flush: the write made for a buffer at the end of the session.
FlushWritesMutBare(h, buf) ==
  IF Len(buf) = 0 THEN <<>> ELSE <<Prefix(h) \o buf>>
FlushWrites(h, buf) ==
  IF Len(buf) = 0 THEN <<>> ELSE <<Prefix(h) \o buf \o <<LF>> >>

\* ------------------------------------------------------------------ state
\* Python values, tagged: None, True, False and the exceptions.
None == <<"None", 0>>
True == <<"True", 0>>
False == <<"False", 0>>
Cancelled == <<"CancelledError", 0>>
SpawnError(h) == <<"SpawnError", h>>
OpenError(h) == <<"OpenError", h>>
\* self._sem = None, as a semaphore value
NoSem == -1

VARIABLES
  \* the request (PAssh.__init__ arguments)
  hosts,                \* self._hosts: the hosts 1..n
  nprocs,               \* self._nprocs
  use_stdout,           \* self._use_stdout
  infile,               \* self._infile is not None
  insecure,             \* the insecure argument of the constructor
  args,                 \* self._args
  \* the build: whether CancelledError derives from Exception (Python < 3.8)
  cancelledIsException,
  \* PAssh fields
  sem,                  \* self._sem: None, or the semaphore's value
  waiters,              \* the semaphore's queue of waiting tasks
  semfut,               \* per host: the future its task waits on in acquire()
  failures,             \* self._failures
  outputs,              \* self._outputs: a function on the hosts stored
  exc,                  \* self._exc
  cancel_on_error,      \* self._cancel_on_error
  \* the caller and the event loop
  mainpc,               \* "init", "running", "embedded", "returned", "raised"
  loop,                 \* self._loop: "default", "new", "closed"
  result,               \* what run() returned or raised
  waitTask,             \* the task running asyncio.wait(): "none",
                        \* "pending", "cancelling", or how it ended:
                        \* "done", "cancelled", "raised"
  barrier,              \* callbacks queued ahead of the loop's stop
  \* one session task per host
  pc,                   \* where the task of _run(host) is suspended:
                        \* "new", "acquire", "spawn", "reap", "await",
                        \* or how it ended: "done", "cancelled", "raised"
  must_cancel,          \* a CancelledError is thrown in at the task's next step
  exit_future,          \* the exit_future of the session's protocol
  cb_close,             \* exit_future's done callback (stdin.close) is queued
  opened,               \* times the input file was opened for the host
  closed,               \* times the host's handle was closed
  cmd,                  \* the argv _run1 passed to subprocess_exec
  open_errors,          \* the exceptions raised by open(), in order
  err,                  \* per host: the exception subprocess_exec holds
                        \* while it reaps the child it has killed
  connected,            \* per host: the pipes of the child were connected
                        \* when subprocess_exec closed the transport
  wait_args,            \* the timeout and return_when arguments of wait()
  child,                \* the child process: "none", "running", "closed"
  returncode,           \* transport.get_returncode() once the child has exited
  \* PAsshProtocol fields, per host
  stdout,               \* self._stdout
  stderr,               \* self._stderr
  exited,               \* self._exited
  closed_stdout,        \* self._closed_stdout
  closed_stderr,        \* self._closed_stderr
  \* the sinks: the writes made, in order
  sys_stdout,
  sys_stderr,
  \* history
  recv_stdout,          \* per host: the chunks received on fd 1, in order
  recv_stderr,          \* per host: the chunks received on fd 2, in order
  faults,               \* the exceptions raised by spawns, in order
  flushes,              \* per host: calls of flush()
  invalid_state,        \* per host: set_result() calls on a cancelled future
  quota                 \* bytes the children may still write

reqVars == <<hosts, nprocs, use_stdout, infile, insecure, args,
             cancelledIsException>>
semVars == <<sem, waiters, semfut>>
taskVars == <<pc, must_cancel, exc, waitTask, barrier>>
fileVars == <<opened, closed, cmd>>
execVars == <<open_errors, err, connected>>
protoVars == <<stdout, stderr, exited, closed_stdout, closed_stderr, returncode>>
sinkVars == <<sys_stdout, sys_stderr>>
dataVars == <<recv_stdout, recv_stderr, quota>>
vars == <<reqVars, execVars, wait_args, semVars, taskVars, fileVars, protoVars, sinkVars, dataVars,
          failures, outputs, cancel_on_error, mainpc, loop, result,
          exit_future, cb_close, child, faults, flushes, invalid_state>>

\* The request with every keyword argument but hosts and args left at a
\* value that switches its feature off, on a build where CancelledError is
\* no Exception.
Plain == nprocs = 0 /\ ~infile /\ ~use_stdout /\ ~cancelledIsException

\* The command of most requests.
DefaultCommand == ~insecure /\ args = <<"date">>

\* The bytes the children of a request may write in all: a plain request
\* gets one byte more than the others, a request that varies the command
\* line gets none, and so does one with more than two hosts.
Quota ==
  IF ~DefaultCommand \/ Cardinality(hosts) > 2 THEN 0
  ELSE IF Plain THEN MaxBytes + 1
  ELSE IF Cardinality(hosts) <= 1 THEN MaxBytes ELSE 1

\* The requests explored: the command line is varied on plain requests
\* only, and more than one slot or more than two hosts are tried without
\* input file and capture.
Explored ==
  /\ DefaultCommand \/ Plain
  /\ (nprocs > 1 \/ Cardinality(hosts) > 2) => (~infile /\ ~use_stdout)

\* wait(self, *, timeout=None, return_when=asyncio.ALL_COMPLETED):
\* whether a timeout is given, and the return_when constants.
ReturnWhen == {"ALL_COMPLETED", "FIRST_COMPLETED", "FIRST_EXCEPTION"}
DefaultWaitArgs == [timeout |-> FALSE, return_when |-> "ALL_COMPLETED"]

\* The arguments of PAssh.__init__, and the build.
Request ==
  /\ hosts \in {1..n : n \in 0..NHosts}
  /\ nprocs \in 0..MaxProcs
  /\ use_stdout \in BOOLEAN
  /\ infile \in BOOLEAN
  /\ cancelledIsException \in BOOLEAN
  /\ insecure \in BOOLEAN
  /\ args \in ArgLists
  /\ Explored

\* The fields PAssh.__init__ sets and, per host, those that
\* PAsshProtocol.__init__ sets.
Constructed ==
  /\ sem = NoSem
  /\ waiters = <<>>
  /\ semfut = [h \in AllHosts |-> "none"]
  /\ failures = <<>>
  /\ outputs = <<>>
  /\ exc = None
  /\ cancel_on_error = FALSE
  /\ mainpc = "init"
  /\ loop = "default"
  /\ result = None
  /\ waitTask = "none"
  /\ barrier = {}
  /\ pc = [h \in AllHosts |-> "none"]
  /\ must_cancel = [h \in AllHosts |-> FALSE]
  /\ exit_future = [h \in AllHosts |-> "none"]
  /\ cb_close = [h \in AllHosts |-> FALSE]
  /\ opened = [h \in AllHosts |-> 0]
  /\ closed = [h \in AllHosts |-> 0]
  /\ cmd = [h \in AllHosts |-> <<>>]
  /\ open_errors = <<>>
  /\ err = [h \in AllHosts |-> None]
  /\ connected = [h \in AllHosts |-> FALSE]
  /\ wait_args = DefaultWaitArgs
  /\ child = [h \in AllHosts |-> "none"]
  /\ returncode = [h \in AllHosts |-> 0]
  /\ stdout = [h \in AllHosts |-> <<>>]
  /\ stderr = [h \in AllHosts |-> <<>>]
  /\ exited = [h \in AllHosts |-> FALSE]
  /\ closed_stdout = [h \in AllHosts |-> FALSE]
  /\ closed_stderr = [h \in AllHosts |-> FALSE]
  /\ sys_stdout = <<>>
  /\ sys_stderr = <<>>
  /\ recv_stdout = [h \in AllHosts |-> <<>>]
  /\ recv_stderr = [h \in AllHosts |-> <<>>]
  /\ faults = <<>>
  /\ flushes = [h \in AllHosts |-> 0]
  /\ invalid_state = [h \in AllHosts |-> 0]

Init == Request /\ Constructed /\ quota = Quota

\* The chunks a child may write next: with more than one host the
\* children write a byte at a time, a letter or a newline.
Chunks ==
  IF Cardinality(hosts) > 1
  THEN {<<b>> : b \in {c \in Bytes \ {CR} : quota > 0}}
  ELSE BytesUpTo(quota)

\* The arguments of wait() explored: they are varied on plain requests
\* of at most two hosts whose children write nothing.
WaitArgs ==
  IF Plain /\ quota = 0 /\ Cardinality(hosts) <= 2
  THEN [timeout : BOOLEAN, return_when : ReturnWhen]
  ELSE {DefaultWaitArgs}

\* The requests of the runs followed to their end under fairness: the
\* default command, live forwarding, and at most one byte of output, from
\* a single host.
FairInit ==
  /\ Request
  /\ DefaultCommand
  /\ ~use_stdout
  /\ Constructed
  /\ quota = IF Cardinality(hosts) = 1 THEN 1 ELSE 0

\* The loop is running callbacks: inside run_until_complete, or driven by
\* the application that embeds wait().
LoopRunning == mainpc \in {"running", "embedded"}

\* The loop runs its callbacks in the order they were queued, and the first
\* step of every session task is queued when wait() makes the tasks: they
\* all run before any callback that a step or a child gives rise to.
Started == \A h \in hosts : pc[h] # "new"

\* ------------------------------------------------------- PAsshProtocol
\* The finished property, of the three flags.
Finished(ex, c1, c2) == ex /\ c1 /\ c2

\* The finished property of the protocol of host h.
finished(h) == Finished(exited[h], closed_stdout[h], closed_stderr[h])

\* flush(): the writes the final flush makes to sys.stdout.
FlushStdoutMutAlways(h) == FlushWrites(h, stdout[h])
FlushStdout(h) == IF ~use_stdout THEN FlushWrites(h, stdout[h]) ELSE <<>>

\* flush(): the writes the final flush makes to sys.stderr.
FlushStderr(h) == FlushWrites(h, stderr[h])

\* signal_exit(), called with the flags as the callback has just set them.
signal_exit(h, ex, c1, c2) ==
  IF ~Finished(ex, c1, c2)
  THEN UNCHANGED <<sinkVars, flushes, exit_future, cb_close, invalid_state,
                   barrier>>
  ELSE /\ sys_stdout' = sys_stdout \o FlushStdout(h)
       /\ sys_stderr' = sys_stderr \o FlushStderr(h)
       /\ flushes' = [flushes EXCEPT ![h] = @ + 1]
       /\ IF exit_future[h] = "pending"
          THEN /\ exit_future' = [exit_future EXCEPT ![h] = "result"]
               /\ cb_close' = [cb_close EXCEPT ![h] = infile]
               /\ UNCHANGED invalid_state
          ELSE \* set_result() on a done future raises InvalidStateError
               /\ invalid_state' = [invalid_state EXCEPT ![h] = @ + 1]
               /\ UNCHANGED <<exit_future, cb_close>>
       /\ UNCHANGED barrier

\* Whether bytes arriving on fd 1 are passed to flush_line.
StdoutLive == ~use_stdout

\* The transport of host h still hands its protocol the data it has
\* read, the end of its streams and the exit of its child: it is open, or
\* it was closed with its pipes connected.
Delivers(h) ==
  child[h] = "running" \/ (child[h] = "closed" /\ connected[h])

pipe_data_received(h, fd, data) ==
  /\ LoopRunning
  /\ Started
  /\ h \in hosts
  /\ Delivers(h)
  /\ Len(data) <= quota
  /\ quota' = quota - Len(data)
  /\ IF fd = 1
     THEN /\ ~closed_stdout[h]
          /\ recv_stdout' = [recv_stdout EXCEPT ![h] = Append(@, data)]
          /\ LET buf == stdout[h] \o data
             IN  IF StdoutLive
                 THEN /\ sys_stdout' = sys_stdout \o FlushLineWrites(h, buf)
                      /\ stdout' = [stdout EXCEPT ![h] = FlushLineRest(buf)]
                 ELSE /\ stdout' = [stdout EXCEPT ![h] = buf]
                      /\ UNCHANGED sys_stdout
          /\ UNCHANGED <<stderr, sys_stderr, recv_stderr>>
     ELSE /\ ~closed_stderr[h]
          /\ recv_stderr' = [recv_stderr EXCEPT ![h] = Append(@, data)]
          /\ LET buf == stderr[h] \o data
             IN  /\ sys_stderr' = sys_stderr \o FlushLineWrites(h, buf)
                 /\ stderr' = [stderr EXCEPT ![h] = FlushLineRest(buf)]
          /\ UNCHANGED <<stdout, sys_stdout, recv_stdout>>
  /\ UNCHANGED <<reqVars, execVars, wait_args, semVars, taskVars, fileVars, exited, closed_stdout,
                 closed_stderr, returncode, failures, outputs, cancel_on_error,
                 mainpc, loop, result, exit_future, cb_close, child, faults, flushes,
                 invalid_state>>

pipe_connection_lost(h, fd) ==
  /\ LoopRunning
  /\ Started
  /\ h \in hosts
  /\ Delivers(h)
  /\ IF fd = 1
     THEN /\ ~closed_stdout[h]
          /\ closed_stdout' = [closed_stdout EXCEPT ![h] = TRUE]
          /\ UNCHANGED closed_stderr
          /\ signal_exit(h, exited[h], TRUE, closed_stderr[h])
     ELSE /\ ~closed_stderr[h]
          /\ closed_stderr' = [closed_stderr EXCEPT ![h] = TRUE]
          /\ UNCHANGED closed_stdout
          /\ signal_exit(h, exited[h], closed_stdout[h], TRUE)
  /\ UNCHANGED <<reqVars, execVars, wait_args, semVars, pc, must_cancel, exc, waitTask, fileVars,
                 stdout, stderr, exited, returncode, dataVars, failures,
                 outputs, cancel_on_error, mainpc, loop, result, child, faults>>

\* process_exited(); the child's exit status becomes the transport's
\* return code.
process_exited(h, rc) ==
  /\ LoopRunning
  /\ Started
  /\ h \in hosts
  /\ Delivers(h)
  /\ ~exited[h]
  /\ exited' = [exited EXCEPT ![h] = TRUE]
  /\ returncode' = [returncode EXCEPT ![h] = rc]
  /\ signal_exit(h, TRUE, closed_stdout[h], closed_stderr[h])
  /\ UNCHANGED <<reqVars, execVars, wait_args, semVars, pc, must_cancel, exc, waitTask, fileVars,
                 stdout, stderr, closed_stdout, closed_stderr, dataVars,
                 failures, outputs, cancel_on_error, mainpc, loop, result, child,
                 faults>>

\* ---------------------------------------------------------------- PAssh
Unsettled == {"new", "acquire", "spawn", "reap", "await"}
Settled == {"done", "cancelled", "raised"}

Remove(q, h) == SelectSeq(q, LAMBDA x : x # h)

\* Semaphore.release(): the waiters' futures after the first waiter whose
\* future is still pending has been woken.
Release(sf, ws) ==
  LET idx == {i \in 1..Len(ws) : sf[ws[i]] = "pending"}
  IN  IF idx = {} THEN sf ELSE [sf EXCEPT ![ws[SetMin(idx)]] = "result"]

\* Semaphore.release(): the semaphore's value once the `with` block has
\* been left by a task that held a slot (held) or by _run1 run without
\* the semaphore.
ReleaseValueMutLeak(sv, held) == sv
ReleaseValue(sv, held) == IF held THEN sv + 1 ELSE sv

\* asyncio.Task.all_tasks(loop): the session tasks a cancel() call still
\* reaches, the task that runs the handler among them.
CancelTargetsMutAwaiting == {t \in hosts : pc[t] = "await"}
CancelTargets == {t \in hosts : pc[t] \in Unsettled}

\* How a task ends when _run returns with a cancel() of its own pending:
\* with a CancelledError as its exception where CancelledError is an
\* Exception, cancelled otherwise.
SelfCancelled == IF cancelledIsException THEN "raised" ELSE "cancelled"

\* Whether `except Exception` in _run catches e.
Caught(e) == e # Cancelled \/ cancelledIsException

\* The value _run's handler stores in self._exc when e reaches it.
StoredExc(e) == e

\* An exception e leaves _run1 in the task of host h: the `with` block
\* releases the semaphore when it was held, and _run's handler either does
\* not catch e, re-raises it, or records it and cancels every task, its
\* own included.
\* sv, ws, sf, ef: the semaphore, its waiters and futures, and the exit
\* futures as the step has left them so far.
Raise(h, e, held, sv, ws, sf, ef) ==
  LET sf1 == IF held THEN Release(sf, ws) ELSE sf
      mc0 == [must_cancel EXCEPT ![h] = FALSE]
      T == CancelTargets \ {h}
  IN
  /\ sem' = ReleaseValue(sv, held)
  /\ waiters' = ws
  /\ IF ~Caught(e)
     THEN /\ pc' = [pc EXCEPT ![h] = "cancelled"]
          /\ must_cancel' = mc0
          /\ semfut' = sf1
          /\ exit_future' = ef
          /\ barrier' = barrier \ {<<"wake", h>>}
          /\ UNCHANGED <<exc, waitTask, cb_close>>
     ELSE IF ~cancel_on_error
     THEN /\ pc' = [pc EXCEPT ![h] = IF e = Cancelled THEN "cancelled" ELSE "raised"]
          /\ must_cancel' = mc0
          /\ semfut' = sf1
          /\ exit_future' = ef
          /\ barrier' = barrier \ {<<"wake", h>>}
          /\ UNCHANGED <<exc, waitTask, cb_close>>
     ELSE /\ exc' = StoredExc(e)
          /\ pc' = [pc EXCEPT ![h] = IF h \in CancelTargets THEN SelfCancelled
                                     ELSE "done"]
          /\ must_cancel' = [t \in AllHosts |-> IF t \in T THEN TRUE ELSE mc0[t]]
          /\ semfut' = [t \in AllHosts |->
                          IF t \in T /\ pc[t] = "acquire" /\ sf1[t] = "pending"
                          THEN "cancelled" ELSE sf1[t]]
          /\ exit_future' = [t \in AllHosts |->
                          IF t \in T /\ pc[t] = "await" /\ ef[t] = "pending"
                          THEN "cancelled" ELSE ef[t]]
          /\ cb_close' = [t \in AllHosts |->
                          \/ cb_close[t]
                          \/ (infile /\ t \in T /\ pc[t] = "await" /\ ef[t] = "pending")]
          /\ waitTask' = IF waitTask = "pending" THEN "cancelling" ELSE waitTask
          /\ barrier' = ((barrier \ {<<"wake", h>>})
                           \cup {<<"wake", t>> : t \in T})
                           \cup {<<"close", t>> : t \in {u \in AllHosts : cb_close'[u]}}

\* self._secure = not insecure
Secure == ~insecure

\* The argv _run1 builds for host h.
CommandLineMutArgsFirst(h) ==
  _SSH \o (IF Secure THEN _INSECURE_OPTS ELSE <<>>) \o args \o <<HostArg(h)>>
CommandLine(h) ==
  _SSH \o (IF Secure THEN _INSECURE_OPTS ELSE <<>>) \o <<HostArg(h)>> \o args

\* Whether _run1 records the host as failed.
RecordedFailureMutInverted(rc) == rc = 0
RecordedFailure(rc) == rc # 0

\* The ways the first step of _run1 can go: the child is started, Popen
\* raises inside subprocess_exec, or open() raises on the input file.
Run1Outcomes ==
  {"started", "spawn_raises"} \cup (IF infile THEN {"open_raises"} ELSE {})

\* _run1 from its first line, in the task of host h, up to its first
\* suspension inside subprocess_exec; out: how the step goes.  held:
\* whether the task holds the semaphore.
Run1(h, out, held, sv, ws, sf) ==
  LET ef == [exit_future EXCEPT ![h] = "pending"]
  IN
  /\ IF out = "open_raises"
     THEN \* line 166 raises: no command line is built, no protocol is
          \* made and no callback is attached
          /\ open_errors' = Append(open_errors, OpenError(h))
          /\ UNCHANGED <<opened, cmd, child, faults>>
          /\ Raise(h, OpenError(h), held, sv, ws, sf, exit_future)
     ELSE /\ opened' = IF infile THEN [opened EXCEPT ![h] = @ + 1] ELSE opened
          /\ cmd' = [cmd EXCEPT ![h] = CommandLine(h)]
          /\ UNCHANGED open_errors
          /\ IF out = "started"
             THEN /\ child' = [child EXCEPT ![h] = "running"]
                  /\ pc' = [pc EXCEPT ![h] = "spawn"]
                  /\ exit_future' = ef
                  /\ sem' = sv
                  /\ waiters' = ws
                  /\ semfut' = sf
                  /\ UNCHANGED <<must_cancel, exc, waitTask, barrier, cb_close,
                                 faults>>
             ELSE /\ faults' = Append(faults, SpawnError(h))
                  /\ UNCHANGED child
                  /\ Raise(h, SpawnError(h), held, sv, ws, sf, ef)
  /\ UNCHANGED <<reqVars, err, connected, wait_args, closed, protoVars, sinkVars, dataVars, failures,
                 outputs, cancel_on_error, mainpc, loop, result, flushes,
                 invalid_state>>

\* A CancelledError is thrown into the task of host h at the suspension
\* point where it waits.
Cancel(h, held, ws, sf) ==
  /\ Raise(h, Cancelled, held, sem, ws, sf, exit_future)
  /\ UNCHANGED <<reqVars, execVars, wait_args, fileVars, protoVars, sinkVars, dataVars, failures,
                 outputs, cancel_on_error, mainpc, loop, result, child, faults,
                 flushes, invalid_state>>

\* No protocol callback has run for host h.
Untouched(h) ==
  /\ ~exited[h] /\ ~closed_stdout[h] /\ ~closed_stderr[h]
  /\ recv_stdout[h] = <<>> /\ recv_stderr[h] = <<>>

\* subprocess_exec closes the transport of host h, which kills the child;
\* c: whether the pipes of the child are connected, as they are once a
\* callback has reached the protocol.  A transport closed with its pipes
\* connected goes on to hand the protocol the data it has read, the end
\* of both streams and the exit of the child; one whose pipes never
\* connected hands it nothing.
CloseTransport(h, c) ==
  /\ ~Untouched(h) => c
  /\ child' = [child EXCEPT ![h] = "closed"]
  /\ connected' = [connected EXCEPT ![h] = c]

\* A CancelledError is thrown into the task of host h while it is
\* suspended in subprocess_exec, and the transport knows of the child's
\* exit already: subprocess_exec closes the transport and the
\* CancelledError leaves _run1, in one step of the task.
CancelReaped(h) ==
  /\ \E c \in BOOLEAN : CloseTransport(h, c)
  /\ Raise(h, Cancelled, nprocs # 0, sem, waiters, semfut, exit_future)
  /\ UNCHANGED <<reqVars, open_errors, err, wait_args, fileVars, protoVars,
                 sinkVars, dataVars, failures, outputs, cancel_on_error,
                 mainpc, loop, result, faults, flushes, invalid_state>>

\* The exception e reaches the task of host h while it is suspended in
\* subprocess_exec and the child has not been reaped: subprocess_exec
\* keeps e, closes the transport, and suspends the task again until the
\* child's exit is reported.  c: whether the pipes are connected.
Reap(h, e, c) ==
  /\ pc' = [pc EXCEPT ![h] = "reap"]
  /\ err' = [err EXCEPT ![h] = e]
  /\ must_cancel' = [must_cancel EXCEPT ![h] = FALSE]
  /\ CloseTransport(h, c)
  /\ barrier' = barrier \ {<<"wake", h>>}
  /\ UNCHANGED <<reqVars, open_errors, wait_args, semVars, exc, waitTask, fileVars, protoVars,
                 sinkVars, dataVars, failures, outputs, cancel_on_error,
                 mainpc, loop, result, exit_future, cb_close, faults, flushes,
                 invalid_state>>

\* A CancelledError is thrown into the task of host h while it is
\* suspended in subprocess_exec, and the child has not been reaped.
CancelSpawn(h) == \E c \in BOOLEAN : Reap(h, Cancelled, c)

\* Connecting the pipes of the child of host h has failed, and the child
\* has not been reaped.
FailSpawn(h) == Reap(h, SpawnError(h), FALSE)

\* Finish, were a nonzero exit status raised from _run1 instead of recorded.
FinishMutRaise(h) ==
  IF returncode[h] # 0
  THEN /\ child' = [child EXCEPT ![h] = "closed"]
       /\ Raise(h, SpawnError(h), nprocs # 0, sem, waiters, semfut, exit_future)
       /\ UNCHANGED <<reqVars, execVars, wait_args, fileVars, protoVars, sinkVars, dataVars,
                      failures, outputs, cancel_on_error, mainpc, loop, result,
                      faults, flushes, invalid_state>>
  ELSE /\ child' = [child EXCEPT ![h] = "closed"]
       /\ outputs' = IF use_stdout
                     THEN [k \in (DOMAIN outputs) \cup {h} |->
                             IF k = h THEN stdout[h] ELSE outputs[k]]
                     ELSE outputs
       /\ sem' = IF nprocs # 0 THEN sem + 1 ELSE sem
       /\ semfut' = IF nprocs # 0 THEN Release(semfut, waiters) ELSE semfut
       /\ pc' = [pc EXCEPT ![h] = "done"]
       /\ UNCHANGED <<reqVars, execVars, wait_args, waiters, must_cancel, exc, waitTask, barrier,
                      fileVars, protoVars, sinkVars, dataVars, cancel_on_error,
                      mainpc, loop, result, exit_future, cb_close, faults, flushes,
                      invalid_state, failures>>

\* _run1 after exit_future: close the transport, record the outcome; then
\* the `with` block of _run releases the semaphore and the task returns.
Finish(h) ==
  /\ child' = [child EXCEPT ![h] = "closed"]
  /\ IF RecordedFailure(returncode[h])
     THEN /\ failures' = Append(failures, h)
          /\ UNCHANGED outputs
     ELSE /\ UNCHANGED failures
          /\ outputs' = IF use_stdout
                        THEN [k \in (DOMAIN outputs) \cup {h} |->
                                IF k = h THEN stdout[h] ELSE outputs[k]]
                        ELSE outputs
  /\ sem' = ReleaseValue(sem, nprocs # 0)
  /\ semfut' = IF nprocs # 0 THEN Release(semfut, waiters) ELSE semfut
  /\ pc' = [pc EXCEPT ![h] = "done"]
  /\ UNCHANGED <<reqVars, execVars, wait_args, waiters, must_cancel, exc, waitTask, barrier,
                 fileVars, protoVars, sinkVars, dataVars, cancel_on_error,
                 mainpc, loop, result, exit_future, cb_close, faults, flushes,
                 invalid_state>>

\* asyncio.Semaphore(self._nprocs): the value a new semaphore starts with.
NewSemaphoreMutOffByOne == nprocs + 1
NewSemaphore == nprocs

\* The first step of the task of _run(host).
StartTask(h) ==
  /\ LoopRunning
  /\ h \in hosts
  /\ pc[h] = "new"
  /\ IF must_cancel[h]
     THEN \* the CancelledError is thrown into a coroutine that has not
          \* started: no line of _run executes
          /\ pc' = [pc EXCEPT ![h] = "cancelled"]
          /\ must_cancel' = [must_cancel EXCEPT ![h] = FALSE]
          /\ barrier' = barrier \ {<<"wake", h>>}
          /\ UNCHANGED <<reqVars, execVars, wait_args, semVars, exc, waitTask, fileVars, protoVars,
                         sinkVars, dataVars, failures, outputs, cancel_on_error,
                         mainpc, loop, result, exit_future, cb_close, child, faults,
                         flushes, invalid_state>>
     ELSE IF nprocs = 0
     THEN \E out \in Run1Outcomes : Run1(h, out, FALSE, sem, waiters, semfut)
     ELSE LET s0 == IF sem = NoSem THEN NewSemaphore ELSE sem
          IN  IF waiters = <<>> /\ s0 > 0
              THEN \E out \in Run1Outcomes :
                      Run1(h, out, TRUE, s0 - 1, waiters, semfut)
              ELSE /\ sem' = s0
                   /\ waiters' = Append(waiters, h)
                   /\ semfut' = [semfut EXCEPT ![h] = "pending"]
                   /\ pc' = [pc EXCEPT ![h] = "acquire"]
                   /\ UNCHANGED <<reqVars, execVars, wait_args, must_cancel, exc, waitTask, barrier,
                                  fileVars, protoVars, sinkVars, dataVars,
                                  failures, outputs, cancel_on_error, mainpc, loop,
                                  result, exit_future, cb_close, child, faults,
                                  flushes, invalid_state>>

\* The task of host h resumes in Semaphore.acquire().
ResumeAcquire(h) ==
  /\ LoopRunning
  /\ Started
  /\ h \in hosts
  /\ pc[h] = "acquire"
  /\ must_cancel[h] \/ semfut[h] = "result"
  /\ LET ws == Remove(waiters, h)
         sf == [semfut EXCEPT ![h] = "none"]
     IN  IF must_cancel[h]
         THEN Cancel(h, FALSE, ws, sf)
         ELSE \E out \in Run1Outcomes : Run1(h, out, TRUE, sem - 1, ws, sf)

\* The exception of a spawn that failed after the child was started
\* leaves subprocess_exec, the transport closed and the child reaped, and
\* so leaves _run1.
SpawnFails(h) ==
  /\ faults' = Append(faults, SpawnError(h))
  /\ child' = [child EXCEPT ![h] = "closed"]
  /\ Raise(h, SpawnError(h), nprocs # 0, sem, waiters, semfut, exit_future)
  /\ UNCHANGED <<reqVars, execVars, wait_args, fileVars, protoVars, sinkVars, dataVars, failures,
                 outputs, cancel_on_error, mainpc, loop, result, flushes,
                 invalid_state>>

\* The task of host h resumes in `yield from proc`: the transport is
\* ready, and the task goes on to `yield from exit_future`; or the spawn
\* has failed (~ok).
ResumeSpawn(h, ok) ==
  /\ LoopRunning
  /\ Started
  /\ h \in hosts
  /\ pc[h] = "spawn"
  \* the transport hands the protocol its callbacks only once it is
  \* connected: a spawn that fails has delivered none
  /\ ~ok => ~must_cancel[h] /\ Untouched(h)
  /\ IF must_cancel[h]
     THEN \* reaped: the transport knows of the child's exit already, as
          \* it does once process_exited has been delivered
          \E reaped \in BOOLEAN :
             /\ exited[h] => reaped
             /\ IF reaped THEN CancelReaped(h) ELSE CancelSpawn(h)
     ELSE IF ~ok
     THEN \E reaped \in BOOLEAN :
             IF reaped THEN SpawnFails(h) ELSE FailSpawn(h)
     ELSE IF exit_future[h] = "result"
     THEN Finish(h)
     ELSE /\ pc' = [pc EXCEPT ![h] = "await"]
          /\ UNCHANGED <<reqVars, execVars, wait_args, semVars, must_cancel, exc, waitTask, barrier,
                         fileVars, protoVars, sinkVars, dataVars, failures,
                         outputs, cancel_on_error, mainpc, loop, result, exit_future,
                         cb_close, child, faults, flushes, invalid_state>>

\* The task of host h resumes in subprocess_exec's wait for the exit of
\* the child it has killed, and the exception subprocess_exec has kept
\* leaves _run1; or the task is cancelled there, and a CancelledError
\* does.
ResumeReap(h) ==
  /\ LoopRunning
  /\ Started
  /\ h \in hosts
  /\ pc[h] = "reap"
  \* the exit of a child whose pipes are connected reaches the protocol
  \* before it wakes the task
  /\ connected[h] => (exited[h] \/ must_cancel[h])
  /\ IF must_cancel[h] \/ err[h] = Cancelled
     THEN Cancel(h, nprocs # 0, waiters, semfut)
     ELSE SpawnFails(h)

\* The task of host h resumes in `yield from exit_future`.  The future's
\* done callbacks run in the order they were added: stdin.close first.
ResumeAwait(h) ==
  /\ LoopRunning
  /\ Started
  /\ h \in hosts
  /\ pc[h] = "await"
  /\ ~cb_close[h]
  /\ must_cancel[h] \/ exit_future[h] = "result"
  /\ IF must_cancel[h]
     THEN Cancel(h, nprocs # 0, waiters, semfut)
     ELSE Finish(h)

\* exit_future's done callback: lambda x: stdin.close()
CloseStdin(h) ==
  /\ LoopRunning
  /\ Started
  /\ h \in hosts
  /\ cb_close[h]
  /\ cb_close' = [cb_close EXCEPT ![h] = FALSE]
  /\ closed' = [closed EXCEPT ![h] = @ + 1]
  /\ barrier' = barrier \ {<<"close", h>>}
  /\ UNCHANGED <<reqVars, execVars, wait_args, semVars, pc, must_cancel, exc, waitTask, opened, cmd,
                 protoVars, sinkVars, dataVars, failures, outputs,
                 cancel_on_error, mainpc, loop, result, exit_future, child, faults,
                 flushes, invalid_state>>

\* The tasks wait() makes: one per host, and the task of asyncio.wait.
StartTasks ==
  /\ pc' = [h \in AllHosts |-> IF h \in hosts THEN "new" ELSE "none"]
  /\ waitTask' = "pending"
  /\ UNCHANGED <<reqVars, execVars, semVars, must_cancel, exc, barrier, fileVars,
                 protoVars, sinkVars, dataVars, failures, outputs, result,
                 exit_future, cb_close, child, faults, flushes, invalid_state>>

\* run(), were the empty host list not returned for at once.
runMutNoEmptyCheck ==
  /\ mainpc = "init"
  /\ mainpc' = "running"
  /\ loop' = "new"
  /\ cancel_on_error' = TRUE
  /\ UNCHANGED wait_args
  /\ StartTasks

\* run(), up to the loop's first callback.
run ==
  /\ mainpc = "init"
  /\ IF hosts = {}
     THEN /\ mainpc' = "returned"
          /\ result' = True
          /\ UNCHANGED loop
          /\ UNCHANGED <<reqVars, execVars, wait_args, semVars, taskVars, fileVars, protoVars,
                         sinkVars, dataVars, failures, outputs, cancel_on_error,
                         exit_future, cb_close, child, faults, flushes,
                         invalid_state>>
     ELSE /\ mainpc' = "running"
          /\ loop' = "new"
          /\ cancel_on_error' = TRUE
          /\ UNCHANGED wait_args
          /\ StartTasks

\* asyncio.wait([]): its first step raises ValueError, and no session
\* task is made.
WaitEmpty ==
  /\ waitTask' = "raised"
  /\ UNCHANGED <<reqVars, execVars, semVars, pc, must_cancel, exc, barrier,
                 fileVars, protoVars, sinkVars, dataVars, failures, outputs,
                 result, exit_future, cb_close, child, faults, flushes,
                 invalid_state>>

\* wait(), were it to switch cancel-on-error on as run() does.
waitMutCancelOnError(timeout, return_when) ==
  /\ mainpc = "init"
  /\ mainpc' = "embedded"
  /\ wait_args' = [timeout |-> timeout, return_when |-> return_when]
  /\ cancel_on_error' = TRUE
  /\ UNCHANGED loop
  /\ IF hosts = {} THEN WaitEmpty ELSE StartTasks

\* wait(timeout, return_when), scheduled by an application on its own
\* loop, up to the loop's first callback; timeout: whether one is given.
wait(timeout, return_when) ==
  /\ mainpc = "init"
  /\ mainpc' = "embedded"
  /\ wait_args' = [timeout |-> timeout, return_when |-> return_when]
  /\ UNCHANGED <<cancel_on_error, loop>>
  /\ IF hosts = {} THEN WaitEmpty ELSE StartTasks

\* asyncio.wait(): whether the session tasks that are done let it return,
\* under its return_when.
WaitComplete ==
  \/ \A h \in hosts : pc[h] \in Settled
  \/ /\ wait_args.return_when = "FIRST_COMPLETED"
     /\ \E h \in hosts : pc[h] \in Settled
  \/ /\ wait_args.return_when = "FIRST_EXCEPTION"
     /\ \E h \in hosts : pc[h] = "raised"

\* asyncio.wait() returns before its condition is met: the timeout has
\* run out.  The session tasks go on.
WaitTimeout ==
  /\ LoopRunning
  /\ Started
  /\ waitTask = "pending"
  /\ wait_args.timeout
  /\ ~WaitComplete
  /\ waitTask' = "done"
  /\ UNCHANGED <<reqVars, execVars, wait_args, semVars, pc, must_cancel, exc,
                 barrier, fileVars, protoVars, sinkVars, dataVars, failures,
                 outputs, cancel_on_error, mainpc, loop, result, exit_future,
                 cb_close, child, faults, flushes, invalid_state>>

\* asyncio.wait() returns: the session tasks that are done meet its
\* return_when, which by default is that every one of them is.
WaitDone ==
  /\ LoopRunning
  /\ Started
  /\ waitTask = "pending"
  /\ WaitComplete
  /\ waitTask' = "done"
  /\ barrier' = barrier \cup {<<"close", h>> : h \in {u \in hosts : cb_close[u]}}
  /\ UNCHANGED <<reqVars, execVars, wait_args, semVars, pc, must_cancel, exc, fileVars, protoVars,
                 sinkVars, dataVars, failures, outputs, cancel_on_error, mainpc, loop,
                 result, exit_future, cb_close, child, faults, flushes,
                 invalid_state>>

\* asyncio.wait() resumes with the CancelledError of task.cancel().
WaitCancelled ==
  /\ LoopRunning
  /\ Started
  /\ waitTask = "cancelling"
  /\ waitTask' = "cancelled"
  /\ UNCHANGED <<reqVars, execVars, wait_args, semVars, pc, must_cancel, exc, barrier, fileVars,
                 protoVars, sinkVars, dataVars, failures, outputs,
                 cancel_on_error, mainpc, loop, result, exit_future, cb_close, child,
                 faults, flushes, invalid_state>>

\* run_until_complete returns: the task of asyncio.wait is done, and the
\* callbacks that were queued ahead of the loop's stop have run.
LoopStopped == waitTask \in {"done", "cancelled"} /\ barrier = {}

\* run() after run_until_complete: the loop stops once the task of
\* asyncio.wait is done and the callbacks queued ahead of the stop have
\* run; run() closes the loop and raises self._exc or returns.
RunReturn ==
  /\ mainpc = "running"
  /\ LoopStopped
  /\ loop' = "closed"
  /\ IF exc # None
     THEN /\ mainpc' = "raised"
          /\ result' = exc
     ELSE /\ mainpc' = "returned"
          /\ result' = IF Len(failures) = 0 THEN True ELSE False
  /\ UNCHANGED <<reqVars, execVars, wait_args, semVars, taskVars, fileVars, protoVars, sinkVars,
                 dataVars, failures, outputs, cancel_on_error, exit_future,
                 cb_close, child, faults, flushes, invalid_state>>

Next ==
  \/ run
  \/ \E a \in WaitArgs : wait(a.timeout, a.return_when)
  \/ \E h \in AllHosts : StartTask(h)
  \/ \E h \in AllHosts : ResumeAcquire(h)
  \/ \E h \in AllHosts, ok \in BOOLEAN : ResumeSpawn(h, ok)
  \/ \E h \in AllHosts : ResumeReap(h)
  \/ \E h \in AllHosts : ResumeAwait(h)
  \/ \E h \in AllHosts : CloseStdin(h)
  \/ \E h \in AllHosts, fd \in {1, 2}, data \in Chunks :
        pipe_data_received(h, fd, data)
  \/ \E h \in AllHosts, fd \in {1, 2} : pipe_connection_lost(h, fd)
  \/ \E h \in AllHosts, rc \in {0, 1} : process_exited(h, rc)
  \/ WaitDone
  \/ WaitTimeout
  \/ WaitCancelled
  \/ RunReturn

Spec == Init /\ [][Next]_vars

\* The loop runs every callback that is ready, and every child that was
\* spawned exits and closes both its streams; whether a child writes, and
\* whether the caller calls run() or wait(), is left open.
Fairness ==
  /\ \A h \in AllHosts :
        /\ WF_vars(StartTask(h))
        /\ WF_vars(ResumeAcquire(h))
        /\ WF_vars(\E ok \in BOOLEAN : ResumeSpawn(h, ok))
        /\ WF_vars(ResumeReap(h))
        /\ WF_vars(ResumeAwait(h))
        /\ WF_vars(CloseStdin(h))
        /\ WF_vars(pipe_connection_lost(h, 1))
        /\ WF_vars(pipe_connection_lost(h, 2))
        /\ WF_vars(\E rc \in {0, 1} : process_exited(h, rc))
  /\ WF_vars(WaitDone)
  /\ WF_vars(WaitCancelled)
  /\ WF_vars(RunReturn)

FairSpec == FairInit /\ [][Next]_vars /\ Fairness

\* ------------------------------------------------------------ properties
\* The bytes of a sequence of chunks, in order.
RECURSIVE Flatten(_)
Flatten(chunks) ==
  IF chunks = <<>> THEN <<>> ELSE Head(chunks) \o Flatten(Tail(chunks))

\* The writes of sink that carry the prefix of host h.
Proj(sink, h) ==
  SelectSeq(sink, LAMBDA w : SubSeq(w, 1, Len(Prefix(h))) = Prefix(h))

\* What a live stream of host h must have written once the bytes r have
\* arrived, however they were chunked: one write per line of r up to its
\* last newline (a line ends at \n, at \r\n, or at a \r that no \n
\* follows), and, once the session has finished (fin), the rest of r with a
\* newline added when it is not empty.
Emitted(h, r, fin) ==
  LET nl == {i \in 1..Len(r) : r[i] = LF}
      last == IF nl = {} THEN 0 ELSE SetMax(nl)
      cuts == {i \in 1..last : r[i] = LF \/ (r[i] = CR /\ r[i + 1] # LF)}
      cut(j) == IF j = 0 THEN 0
                ELSE CHOOSE c \in cuts : Cardinality({d \in cuts : d <= c}) = j
      rest == SubSeq(r, last + 1, Len(r))
  IN  [j \in 1..Cardinality(cuts) |->
          Prefix(h) \o SubSeq(r, cut(j - 1) + 1, cut(j))]
        \o (IF fin /\ rest # <<>> THEN <<Prefix(h) \o rest \o <<LF>> >> ELSE <<>>)

\* The bytes written to sink for host h, the prefix taken off each write.
Stripped(sink, h) ==
  LET ws == Proj(sink, h)
  IN  Flatten([i \in 1..Len(ws) |->
                 SubSeq(ws[i], Len(Prefix(h)) + 1, Len(ws[i]))])

\* The bytes r of a stream, with a newline added when r is not empty and
\* does not end with one.
Terminated(r) ==
  IF r # <<>> /\ r[Len(r)] # LF THEN r \o <<LF>> ELSE r

\* Whether write w is a prefix followed by bytes that end with a newline
\* and hold no other newline.
OneLine(w) ==
  \E h \in hosts :
     /\ Len(w) > Len(Prefix(h))
     /\ SubSeq(w, 1, Len(Prefix(h))) = Prefix(h)
     /\ w[Len(w)] = LF
     /\ \A i \in (Len(Prefix(h)) + 1)..(Len(w) - 1) : w[i] # LF

\* The sessions between gate acquisition and gate release.
InGate == {h \in hosts : pc[h] \in {"spawn", "reap", "await"}}

\* The children spawned and not finished.
LiveChildren == {h \in hosts : child[h] = "running" /\ ~finished(h)}

\* The elements of a sequence.
Range(q) == {q[i] : i \in 1..Len(q)}

\* A session has raised an orchestration fault: its spawn or its open().
Faulted == faults # <<>> \/ open_errors # <<>>

\* C1: with nprocs = N > 0, at most N sessions are between gate acquisition
\* and gate release, and at most N children are spawned and not finished, in
\* every reachable state.
C1_AtMostNInGate ==
  nprocs > 0 =>
    /\ Cardinality(InGate) <= nprocs
    /\ Cardinality(LiveChildren) <= nprocs

\* C1 witness: more hosts than slots, one session done, the next in the
\* gate with its child running.
C1_Witness ==
  /\ nprocs > 0
  /\ Cardinality(hosts) > nprocs
  /\ \E h \in hosts, k \in hosts :
        pc[h] = "done" /\ pc[k] = "await" /\ k \in LiveChildren

\* C2: when run() returns, failed_hosts holds exactly the hosts whose child
\* exited nonzero, each once, and run() returns True iff it is empty.
C2_FailedHostsExact ==
  mainpc = "returned" =>
    /\ \A h \in hosts : exited[h]
    /\ Range(failures) = {h \in hosts : returncode[h] # 0}
    /\ Len(failures) = Cardinality(Range(failures))
    /\ result = IF failures = <<>> THEN True ELSE False

\* C2 witness: run() has returned False with one host failed and one not.
C2_Witness ==
  /\ mainpc = "returned"
  /\ result = False
  /\ \E h \in hosts, k \in hosts :
        returncode[h] # 0 /\ returncode[k] = 0 /\ h # k

\* C3: as long as no spawn and no open() has raised, whatever the exit
\* statuses, the fault slot stays empty and no task is cancelled; and when
\* run() returns every session has run to its end and has its own outcome
\* recorded.
C3_NonzeroExitIsolated ==
  ~Faulted =>
    /\ exc = None
    /\ \A h \in AllHosts : ~must_cancel[h] /\ pc[h] # "cancelled"
    /\ waitTask \notin {"cancelling", "cancelled"}
    /\ mainpc = "returned" =>
         \A h \in hosts :
            /\ pc[h] = "done"
            /\ (h \in Range(failures)) <=> (returncode[h] # 0)
            /\ (use_stdout /\ returncode[h] = 0) => h \in DOMAIN outputs

\* C3 witness: one child has exited nonzero and is recorded, and another
\* session, still running then, has gone on to its own completion.
C3_Witness ==
  /\ mainpc = "returned"
  /\ \E h \in hosts, k \in hosts :
        /\ failures = <<h>>
        /\ k # h
        /\ pc[k] = "done"
        /\ returncode[k] = 0

\* C4: in capture mode, after the run, outputs[H] is exactly the bytes H's
\* command wrote to its primary stream, for every host H that wrote any.
C4_OutputsExact ==
  (use_stdout /\ mainpc = "returned") =>
    \A h \in hosts :
       recv_stdout[h] # <<>> =>
         /\ h \in DOMAIN outputs
         /\ outputs[h] = Flatten(recv_stdout[h])

\* C5: in capture mode nothing is ever written to the stdout sink, and each
\* session's secondary stream is written to the stderr sink as prefixed
\* lines.
C5_CaptureKeepsStdoutSilent ==
  use_stdout =>
    /\ sys_stdout = <<>>
    /\ \A h \in hosts :
          Proj(sys_stderr, h) = Emitted(h, Flatten(recv_stderr[h]), flushes[h] > 0)

\* C5 witness: a capture-mode session has finished having received a line
\* and a fragment on its primary stream and a line on its secondary one.
C5_Witness ==
  /\ use_stdout
  /\ \E h \in hosts :
        /\ flushes[h] = 1
        /\ Len(stdout[h]) > 0
        /\ Len(Proj(sys_stderr, h)) > 0

\* The writes of whole lines for host h once the bytes r have arrived: one
\* write of prefix + line for each line of r that its newline byte ends,
\* and, once the session has finished (fin), the rest of r with a newline
\* added when it is not empty.
WholeLines(h, r, fin) ==
  LET nl == {i \in 1..Len(r) : r[i] = LF}
      last == IF nl = {} THEN 0 ELSE SetMax(nl)
      cut(j) == IF j = 0 THEN 0
                ELSE CHOOSE c \in nl : Cardinality({d \in nl : d <= c}) = j
      rest == SubSeq(r, last + 1, Len(r))
  IN  [j \in 1..Cardinality(nl) |->
          Prefix(h) \o SubSeq(r, cut(j - 1) + 1, cut(j))]
        \o (IF fin /\ rest # <<>> THEN <<Prefix(h) \o rest \o <<LF>> >> ELSE <<>>)

\* C6: on a live-forwarded stream the writes made are those of the bytes
\* received taken as a whole: nothing of a line is written before its
\* newline has arrived, the line, from the byte after the previous newline
\* to its own newline, is then one write of prefix + line, and the
\* chunking does not matter.
C6_LinesWholeAnyChunking ==
  \A h \in hosts :
     /\ ~use_stdout =>
          Proj(sys_stdout, h)
            = WholeLines(h, Flatten(recv_stdout[h]), flushes[h] > 0)
     /\ Proj(sys_stderr, h)
          = WholeLines(h, Flatten(recv_stderr[h]), flushes[h] > 0)
     /\ (~use_stdout /\ flushes[h] = 0 /\ LF \notin Range(Flatten(recv_stdout[h])))
           => Proj(sys_stdout, h) = <<>>

\* C7: the final flush happens exactly once per session, in the step that
\* makes the session finished and in no other; it writes each nonempty
\* live buffer once as prefix + fragment + newline, and nothing for an
\* empty one.
C7_FinalFlushOnce ==
  [][\A h \in AllHosts :
       /\ (flushes'[h] # flushes[h]) <=> (~finished(h) /\ finished(h)')
       /\ (flushes'[h] # flushes[h]) =>
            /\ flushes[h] = 0
            /\ flushes'[h] = 1
            /\ LF \notin Range(stderr[h])
            /\ sys_stderr' = sys_stderr \o
                 (IF stderr[h] = <<>> THEN <<>>
                  ELSE << Prefix(h) \o stderr[h] \o <<LF>> >>)
            /\ sys_stdout' = sys_stdout \o
                 (IF use_stdout \/ stdout[h] = <<>> THEN <<>>
                  ELSE << Prefix(h) \o stdout[h] \o <<LF>> >>)
            /\ ~use_stdout => LF \notin Range(stdout[h])
    ]_vars

\* C7 witness: a session finished with the fragment "a" in its stdout
\* buffer, and the sink holds the one write "[H] a\n".
C7_Witness ==
  \E h \in hosts :
     /\ ~use_stdout
     /\ flushes[h] = 1
     /\ Flatten(recv_stdout[h]) = <<97>>
     /\ sys_stdout = << Prefix(h) \o <<97, LF>> >>
     /\ sys_stderr = <<>>

\* C8: during run(), the step in which a session's spawn or open() raises
\* requests the cancellation of every other session that has not settled,
\* and once a session has raised so no session spawns a child.
C8_FaultCancelsAll ==
  [][
       /\ (cancel_on_error /\ Len(faults') > Len(faults)) =>
             LET f == faults'[Len(faults')][2]
             IN  \A t \in hosts \ {f} :
                    (pc[t] \in Unsettled) => must_cancel'[t]
       /\ (cancel_on_error /\ Len(open_errors') > Len(open_errors)) =>
             LET f == open_errors'[Len(open_errors')][2]
             IN  \A t \in hosts \ {f} :
                    (pc[t] \in Unsettled) => must_cancel'[t]
       /\ (cancel_on_error /\ Faulted) =>
             \A t \in hosts : (child[t] = "none") => (child'[t] = "none")
    ]_vars

\* C8 witness: a spawn has raised during run() while another session was
\* awaiting its child, and that session has a cancellation pending.
C8_Witness ==
  /\ cancel_on_error
  /\ faults # <<>>
  /\ \E t \in hosts : pc[t] = "await" /\ must_cancel[t]

\* C9: the fault slot is written once: whenever it is set it holds the
\* first fault that occurred, the first spawn or the first open() that
\* raised, and that is what run() raises.
C9_FirstFaultWins ==
  LET first == {faults[i] : i \in {1} \cap DOMAIN faults}
                 \cup {open_errors[i] : i \in {1} \cap DOMAIN open_errors}
  IN  /\ exc # None => exc \in first
      /\ mainpc = "raised" => result \in first

\* C10: with an input file, each session opens it once and its handle is
\* closed once; when run() has returned or raised no handle is open.
C10_HandleClosedOnce ==
  \A h \in hosts :
     /\ opened[h] <= 1
     /\ closed[h] <= opened[h]
     /\ mainpc \in {"returned", "raised"} => closed[h] = opened[h]

\* C11 as stated: the command line is the fixed options, then the
\* host-identity-bypass options if and only if the insecure flag is set,
\* then the host, then the caller's arguments in order.
C11_BypassIffInsecure ==
  \A h \in hosts :
     cmd[h] # <<>> =>
       cmd[h] = _SSH \o (IF insecure THEN _INSECURE_OPTS ELSE <<>>)
                     \o <<HostArg(h)>> \o args

\* C11 amended: the command line is the fixed options, then the
\* host-identity-bypass options if and only if the insecure flag is NOT
\* set, then the host, then the caller's arguments in order.
C11_BypassIffNotInsecure ==
  \A h \in hosts :
     cmd[h] # <<>> =>
       cmd[h] = _SSH \o (IF insecure THEN <<>> ELSE _INSECURE_OPTS)
                     \o <<HostArg(h)>> \o args

\* C11 witness: a session was started for a request with the insecure flag
\* set and two arguments, and its command line carries no bypass option.
C11_Witness ==
  \E h \in hosts :
     /\ Len(args) = 2
     /\ insecure
     /\ cmd[h] = <<"ssh", "-T", "-o", "LogLevel=ERROR", "-o",
                   "ConnectTimeout=6", HostArg(h), "ls", "-l">>

\* C12: when the sessions are driven through wait(), a spawn or an open()
\* that raises is re-raised from its own session's task, the fault slot
\* stays empty and no task of the loop is cancelled.
C12_EmbeddedFaultsNotBroadcast ==
  mainpc = "embedded" =>
    /\ exc = None
    /\ ~cancel_on_error
    /\ \A i \in 1..Len(faults) : pc[faults[i][2]] = "raised"
    /\ \A i \in 1..Len(open_errors) : pc[open_errors[i][2]] = "raised"
    /\ \A h \in AllHosts :
          /\ ~must_cancel[h]
          /\ pc[h] # "cancelled"
          /\ exit_future[h] # "cancelled"
          /\ semfut[h] # "cancelled"
    /\ waitTask \notin {"cancelling", "cancelled"}

\* C12 witness: under wait(), one session's spawn has raised and another
\* session has since run to its end.
C12_Witness ==
  /\ mainpc = "embedded"
  /\ \E h \in hosts, k \in hosts :
        /\ pc[h] = "raised"
        /\ pc[k] = "done"
        /\ exited[k]
        /\ faults = <<SpawnError(h)>>

\* C13: run() on an empty host list returns True at once and changes
\* nothing: no loop and no semaphore is made, no task is started, and
\* failed_hosts and outputs stay empty.
C13_EmptyHostsNoop ==
  (hosts = {} /\ mainpc \notin {"init", "embedded"}) =>
    /\ mainpc = "returned"
    /\ result = True
    /\ loop = "default"
    /\ sem = NoSem
    /\ waitTask = "none"
    /\ \A h \in AllHosts : pc[h] = "none" /\ child[h] = "none"
    /\ failures = <<>>
    /\ outputs = <<>>
    /\ exc = None
    /\ ~cancel_on_error

\* C13 witness: run() has returned for an empty host list.
C13_Witness ==
  hosts = {} /\ mainpc = "returned" /\ result = True

\* C14: the exit future is resolved in the step that delivers the last of
\* process_exited, pipe_connection_lost(1) and pipe_connection_lost(2),
\* whatever their order, and in no other step; it is resolved once and
\* stays resolved; while it is resolved the process has exited and both
\* streams are closed, and every chunk delivered before has been taken
\* into its buffer.
C14_ExitFutureAtLastEvent ==
  [][\A h \in AllHosts :
       LET all3 == exited[h] /\ closed_stdout[h] /\ closed_stderr[h]
           all3n == exited'[h] /\ closed_stdout'[h] /\ closed_stderr'[h]
       IN  /\ exit_future[h] = "result" => all3
           /\ exit_future'[h] = "result" => all3n
           /\ (exit_future[h] # "result" /\ exit_future'[h] = "result") =>
                 (~all3 /\ all3n)
           /\ (~all3 /\ all3n) => exit_future'[h] = "result"
           /\ exit_future[h] = "result" => exit_future'[h] = "result"
           /\ (exit_future'[h] = "result" /\ use_stdout) =>
                 stdout'[h] = Flatten(recv_stdout'[h])
    ]_vars

\* C15: the slots held are exactly those of the sessions between gate
\* acquisition and gate release: every slot acquired is given back once,
\* on each way out of the session, a session cancelled while waiting
\* takes none, and no slot is held once every session has settled.
C15_SlotsReleasedOnce ==
  /\ nprocs = 0 => sem = NoSem
  /\ nprocs > 0 =>
       /\ sem = NoSem => InGate = {}
       /\ sem # NoSem => nprocs - sem = Cardinality(InGate)
       /\ (sem # NoSem /\ \A h \in hosts : pc[h] \in Settled) => sem = nprocs
       /\ \A h \in hosts : pc[h] = "acquire" => h \in Range(waiters)

\* C15 witness: a session was cancelled while it held a slot, every
\* session has settled and every slot is free.
C15_Witness ==
  /\ nprocs > 0
  /\ sem = nprocs
  /\ \A h \in hosts : pc[h] \in Settled
  /\ \E h \in hosts : pc[h] = "cancelled" /\ child[h] = "running"

\* C16: when run() has returned or raised, every session task has
\* settled: none is waiting at the gate, holds a slot, is suspended in its
\* spawn or awaits its child.
C16_ReturnsAfterAllSettled ==
  mainpc \in {"returned", "raised"} =>
    /\ \A h \in hosts : pc[h] \in Settled /\ ~must_cancel[h]
    /\ InGate = {}
    /\ sem # NoSem => sem = nprocs

\* C17: once a session has been cancelled while it awaited its child, no
\* callback of its protocol writes to a sink for it, runs the final flush
\* or calls set_result on its cancelled exit future.
C17_SilentAfterCancel ==
  [][\A h \in hosts :
       exit_future[h] = "cancelled" =>
          /\ Proj(sys_stdout', h) = Proj(sys_stdout, h)
          /\ Proj(sys_stderr', h) = Proj(sys_stderr, h)
          /\ flushes'[h] = flushes[h]
          /\ invalid_state'[h] = invalid_state[h]
    ]_vars

\* C18: every write to a sink is a prefix followed by bytes that end with
\* a newline and hold no other newline, whatever the bytes of the stream,
\* carriage returns included; and no buffer of a live stream holds a
\* newline once a chunk has been processed.
C18_WritesEndWithNewline ==
  /\ \A i \in 1..Len(sys_stdout) : OneLine(sys_stdout[i])
  /\ \A i \in 1..Len(sys_stderr) : OneLine(sys_stderr[i])
  /\ \A h \in hosts :
        /\ LF \notin Range(stderr[h])
        /\ ~use_stdout => LF \notin Range(stdout[h])

\* C19: for a session that has finished, the writes of a live stream,
\* their prefixes taken off and put end to end in the order written, are
\* the bytes received on the stream in the order received, followed by one
\* newline if and only if the stream was not empty and did not end with a
\* newline; every write carries the prefix of a host.
C19_ByteExact ==
  /\ \A i \in 1..Len(sys_stdout) :
        \E h \in hosts : SubSeq(sys_stdout[i], 1, Len(Prefix(h))) = Prefix(h)
  /\ \A i \in 1..Len(sys_stderr) :
        \E h \in hosts : SubSeq(sys_stderr[i], 1, Len(Prefix(h))) = Prefix(h)
  /\ \A h \in hosts :
        flushes[h] > 0 =>
          /\ ~use_stdout =>
                Stripped(sys_stdout, h) = Terminated(Flatten(recv_stdout[h]))
          /\ Stripped(sys_stderr, h) = Terminated(Flatten(recv_stderr[h]))

\* C19 witness: two sessions have finished; one made two writes to the
\* stdout sink, the second for a stream without a final newline, and the
\* write of the other session lies between them.
C19_Witness ==
  \E h \in hosts, k \in hosts :
     /\ h # k
     /\ ~use_stdout
     /\ flushes[h] = 1 /\ flushes[k] = 1
     /\ Flatten(recv_stdout[h]) = <<LF, 97>>
     /\ Flatten(recv_stdout[k]) = <<LF>>
     /\ sys_stdout = << Prefix(h) \o <<LF>>, Prefix(k) \o <<LF>>,
                        Prefix(h) \o <<97, LF>> >>

\* The session of host h has passed the gate: _run1 has been entered, and
\* has built its command line or failed to open its input file.
Admitted(h) == cmd[h] # <<>> \/ OpenError(h) \in Range(open_errors)

\* C20: under fair scheduling, with every spawned child exiting
\* and closing its streams, every session is eventually admitted through
\* the gate, every session eventually settles, and run() eventually
\* returns or raises.
C20_AllAdmitted ==
  /\ \A h \in AllHosts :
        (h \in hosts /\ pc[h] \in {"new", "acquire"}) ~> Admitted(h)
  /\ \A h \in AllHosts :
        (h \in hosts /\ pc[h] \in Unsettled) ~> (pc[h] \in Settled)
  /\ (mainpc = "running") ~> (mainpc \in {"returned", "raised"})

====
